---- MODULE Spec2Model ----
(***************************************************************************)
(* pyhibernator (src/pyhibernator/main.py): indicators of delayed          *)
(* recognition computed from yearly citation histories, and the two        *)
(* corpus routines (DNIC.get_ekj, Quartile.get_c_dic) that build the       *)
(* (subject, year) tables two of the indicators read.                      *)
(*                                                                         *)
(* A citation history is a sequence of naturals; the code's index t        *)
(* (0-based) is position t+1 here (operator At).  Floating-point values    *)
(* are modelled as exact fractions [num, den] with den > 0; NaN is the     *)
(* record [nan |-> TRUE] and a raised exception the record [exc |-> name]. *)
(***************************************************************************)
EXTENDS Integers, Sequences, FiniteSets, TLC

VARIABLES
    fn,            \* name of the function that was called ("none" before the call)
    ret,           \* what the call returned (or the exception it raised)
    c,             \* citation history of a per-paper call
    par,           \* the numeric thresholds of a per-paper call
    subjs,         \* subject list of a per-paper call
    year,          \* publication year of a per-paper call
    c_list,        \* corpus: citation histories (c50 values for get_c_dic)
    subjs_list,    \* corpus: subject lists
    year_list,     \* corpus: publication years
    ekj_dic,       \* table handed to DNIC.extract
    c_dic_before,  \* table handed to Quartile.extract
    c_dic_after,   \* table handed to Quartile.extract
    looked         \* the table lookups of the call, in order: [key, hit, val, use]

vars == <<fn, ret, c, par, subjs, year, c_list, subjs_list, year_list,
          ekj_dic, c_dic_before, c_dic_after, looked>>

(***************************************************************************)
(* Bounds of the inputs.                                                   *)
(***************************************************************************)
MaxLen == 5
MaxCite == 3

(***************************************************************************)
(* Python / numpy primitives.                                              *)
(***************************************************************************)
SeqsUpTo(n, S) == UNION {[1..k -> S] : k \in 0..n}

\* c[t] with the code's 0-based index
At(s, t) == s[t + 1]

\* sum(c[:k]): the first k entries, silently truncated at the end of the list
RECURSIVE SumFirst(_, _)
SumFirst(s, k) ==
    IF k <= 0 \/ Len(s) = 0 THEN 0
    ELSE IF k >= Len(s) THEN s[Len(s)] + SumFirst(SubSeq(s, 1, Len(s) - 1), Len(s) - 1)
    ELSE SumFirst(SubSeq(s, 1, k), k)

\* sum(c) / np.sum(c)
Sum(s) == SumFirst(s, Len(s))

\* np.cumsum(c)[t]
Cum(s, t) == SumFirst(s, t + 1)

\* np.max(c) of a non-empty list
Max(s) == CHOOSE m \in {s[i] : i \in 1..Len(s)} : \A i \in 1..Len(s) : s[i] <= m

\* np.argmax(c): the first (0-based) index of the maximum
ArgMax(s) == (CHOOSE i \in 1..Len(s) :
                 /\ s[i] = Max(s)
                 /\ \A j \in 1..(i - 1) : s[j] < Max(s)) - 1

\* a raised exception, a returned dict, and the float NaN, as return values
Raise(e) == [exc |-> e]
Dict(d) == [dic |-> d]
NaN == [nan |-> TRUE]
IsRat(v) == DOMAIN v = {"num", "den"}

\* a float, as an exact fraction with a positive denominator
Rat(n, d) == IF d < 0 THEN [num |-> -n, den |-> -d] ELSE [num |-> n, den |-> d]
RECURSIVE GCD(_, _)
GCD(a, b) == IF b = 0 THEN a ELSE GCD(b, a % b)

\* the fraction in lowest terms (the value is the same)
Lowest(x) ==
    LET g == GCD(IF x.num < 0 THEN -x.num ELSE x.num, x.den)
    IN  [num |-> x.num \div g, den |-> x.den \div g]

RatAdd(x, y) == Lowest([num |-> x.num * y.den + y.num * x.den, den |-> x.den * y.den])
RatLT(x, y) == x.num * y.den < y.num * x.den
RatLE(x, y) == x.num * y.den <= y.num * x.den
RatEQ(x, y) == x.num * y.den = y.num * x.den

RECURSIVE RatSum(_)
RatSum(s) == IF Len(s) = 0 THEN Rat(0, 1) ELSE RatAdd(RatSum(Tail(s)), Head(s))

(***************************************************************************)
(* AdjustedGiniCoefficient.score                                           *)
(***************************************************************************)
\* sum([c[t]*(n-t) for t in range(n)])
RECURSIVE WeightedSum(_, _)
WeightedSum(s, n) ==
    IF Len(s) = 0 THEN 0
    ELSE s[Len(s)] * (n - (Len(s) - 1)) + WeightedSum(SubSeq(s, 1, Len(s) - 1), n)

\* the formula without the "- C" term
GiniScoreNoC(s) ==
    LET C == Sum(s)
        n == Len(s)
    IN  IF C = 0 THEN Rat(1, 1)
        ELSE IF n < 2 THEN Rat(0, 1)
        ELSE Rat(n * (n * C - 2 * WeightedSum(s, n)), (n - 1) * (n * C))

\* the length test placed before the zero-total test
GiniScoreLenFirst(s) ==
    LET C == Sum(s)
        n == Len(s)
    IN  IF n < 2 THEN Rat(0, 1)
        ELSE IF C = 0 THEN Rat(1, 1)
        ELSE Rat(n * (n * C - (2 * WeightedSum(s, n) - C)), (n - 1) * (n * C))

\* Gs = (n/(n-1)) * (1 - (2*sum(c[t]*(n-t)) - C)/(n*C))
GiniScore(s) ==
    LET C == Sum(s)
        n == Len(s)
    IN  IF C = 0 THEN Rat(1, 1)
        ELSE IF n < 2 THEN Rat(0, 1)
        ELSE Rat(n * (n * C - (2 * WeightedSum(s, n) - C)), (n - 1) * (n * C))

(***************************************************************************)
(* BeautyCoefficient.score                                                 *)
(***************************************************************************)
\* _calcB: ((ctm - c0)*t/tm + c0 - ct)/max_ct
CalcB(ctm, c0, tm, ct, max_ct, t) == Rat((ctm - c0) * t + (c0 - ct) * tm, tm * max_ct)

BeautyScore(s) ==
    IF Sum(s) = 0 THEN Rat(0, 1)
    ELSE LET c0 == At(s, 0)
             tm == ArgMax(s)
             ctm == Max(s)
         IN  IF tm = 0 THEN Rat(0, 1)
             ELSE RatSum([i \in 1..(tm + 1) |->
                    CalcB(ctm, c0, tm, s[i], IF s[i] > 1 THEN s[i] ELSE 1, i - 1)])

(***************************************************************************)
(* BeautyCoefficientCumulativePercentage.score                             *)
(***************************************************************************)
\* argmax of np.cumsum(c)/np.sum(c): the first year the cumulative count is the total
ArgMaxShare(s) == (CHOOSE i \in 1..Len(s) :
                      /\ Cum(s, i - 1) = Sum(s)
                      /\ \A j \in 1..(i - 1) : Cum(s, j - 1) < Sum(s)) - 1

\* _calcBcp on c_relative: (1 - c0)*t/tm + c0 - ct; 0/0 is NaN when tm = 0
BCPScore(s) ==
    IF Sum(s) = 0 THEN Rat(0, 1)
    ELSE LET C == Sum(s)
             tm == ArgMaxShare(s)
         IN  IF tm = 0 THEN NaN
             ELSE RatSum([i \in 1..(tm + 1) |->
                    Rat((C - Cum(s, 0)) * (i - 1) + (Cum(s, 0) - Cum(s, i - 1)) * tm,
                        C * tm)])

(***************************************************************************)
(* Quartile.get_c50                                                        *)
(***************************************************************************)
\* np.where(np.cumsum(c)/np.sum(c) > 0.5): a strict comparison
GetC50Strict(s) ==
    IF Sum(s) = 0 THEN 0
    ELSE LET hit == {t \in 0..(Len(s) - 1) : RatLT(Rat(1, 2), Rat(Cum(s, t), Sum(s)))}
         IN  CHOOSE t \in hit : \A u \in hit : t <= u

\* np.min(np.where(np.cumsum(c)/np.sum(c) >= 0.5))
GetC50(s) ==
    IF Sum(s) = 0 THEN 0
    ELSE LET hit == {t \in 0..(Len(s) - 1) : RatLE(Rat(1, 2), Rat(Cum(s, t), Sum(s)))}
         IN  CHOOSE t \in hit : \A u \in hit : t <= u

(***************************************************************************)
(* The scores of one history: the history is drawn, then one of the four   *)
(* functions is called on it.                                              *)
(***************************************************************************)
NoCorpus ==
    /\ c_list = <<>> /\ subjs_list = <<>> /\ year_list = <<>>
NoTables ==
    /\ ekj_dic = <<>> /\ c_dic_before = <<>> /\ c_dic_after = <<>>
    /\ looked = <<>>
NoPaper ==
    /\ subjs = <<>> /\ year = 0

InitScore ==
    /\ fn = "none" /\ ret = "none"
    /\ c \in SeqsUpTo(MaxLen, 0..MaxCite)
    /\ par = <<>>
    /\ NoPaper /\ NoCorpus /\ NoTables

Return(f, v) ==
    /\ fn = "none"
    /\ fn' = f
    /\ ret' = v
    /\ UNCHANGED <<c, par, subjs, year, c_list, subjs_list, year_list,
                   ekj_dic, c_dic_before, c_dic_after>>

CallGini == Return("AdjustedGiniCoefficient.score", GiniScore(c)) /\ UNCHANGED looked
CallBeauty == Return("BeautyCoefficient.score", BeautyScore(c)) /\ UNCHANGED looked
CallBCP == Return("BeautyCoefficientCumulativePercentage.score", BCPScore(c))
           /\ UNCHANGED looked
CallGetC50 == Return("Quartile.get_c50", GetC50(c)) /\ UNCHANGED looked

NextScore == CallGini \/ CallBeauty \/ CallBCP \/ CallGetC50

SpecScore == InitScore /\ [][NextScore]_vars

(***************************************************************************)
(* Average.extract                                                         *)
(***************************************************************************)
AvgMaxLen == 3
AvgMaxCite == 2
MaxS == 2
MaxA == 2
MaxDepth == 2

\* sum(c[lo:hi]) for 0 <= lo <= hi: the slice stops at the end of the list
SliceSum(s, lo, hi) == SumFirst(s, hi) - SumFirst(s, lo)

\* the sleep test with a strict comparison
AverageExtractStrict(s, sl, cs, a, ca) ==
    LET c_average == Rat(SliceSum(s, 0, sl + 1), sl + 1)
        ca_average == Rat(SliceSum(s, sl + 1, sl + a + 1), a)
    IN  RatLT(c_average, Rat(cs, 1)) /\ RatLE(Rat(ca, 1), ca_average)

\* c_average = sum(c[:s+1])/(s+1); ca_average = sum(c[s+1:s+a+1])/a
AverageExtract(s, sl, cs, a, ca) ==
    LET c_average == Rat(SliceSum(s, 0, sl + 1), sl + 1)
        ca_average == Rat(SliceSum(s, sl + 1, sl + a + 1), a)
    IN  RatLE(c_average, Rat(cs, 1)) /\ RatLE(Rat(ca, 1), ca_average)

InitAverage ==
    /\ fn = "none" /\ ret = "none"
    /\ c \in SeqsUpTo(AvgMaxLen, 0..AvgMaxCite)
    /\ par \in [s : 0..MaxS, cs : 0..MaxDepth, a : 1..MaxA, ca : 0..MaxDepth]
    /\ NoPaper /\ NoCorpus /\ NoTables

CallAverage ==
    /\ Return("Average.extract", AverageExtract(c, par.s, par.cs, par.a, par.ca))
    /\ UNCHANGED looked

NextAverage == CallAverage

SpecAverage == InitAverage /\ [][NextAverage]_vars

(***************************************************************************)
(* ExponentialQuartile.extract                                             *)
(***************************************************************************)
EqMaxLen == 5
EqMaxCite == 2
MaxK == 1

\* cw > np.sqrt(x) for an integer cw >= 0: np.sqrt of a negative number is
\* NaN, and every comparison with NaN is False
GreaterThanSqrt(cw, x) == x >= 0 /\ cw * cw > x

\* nw = int(n*0.2); cs = np.max(c[:ns]); cw = np.max(c[ns:]);
\* np.max of an empty slice raises ValueError
EQExtract(s, k) ==
    LET n == Len(s)
        nw == n \div 5
        ns == n - nw
    IN  IF ns = 0 \/ nw = 0 THEN Raise("ValueError")
        ELSE LET cs == Max(SubSeq(s, 1, ns))
                 cw == Max(SubSeq(s, ns + 1, n))
             IN  (cw > 4 * cs) /\ GreaterThanSqrt(cw, k * ns)

\* the history is drawn once; extract is then called with one k after another
InitEQ ==
    /\ fn = "none" /\ ret = <<>>
    /\ c \in SeqsUpTo(EqMaxLen, 0..EqMaxCite)
    /\ par = <<>>
    /\ NoPaper /\ NoCorpus /\ NoTables

CallEQ ==
    \E k \in (-MaxK)..MaxK :
        /\ k \notin DOMAIN ret
        /\ fn' = "ExponentialQuartile.extract"
        /\ ret' = ret @@ (k :> EQExtract(c, k))
        /\ UNCHANGED <<c, par, subjs, year, c_list, subjs_list, year_list,
                       ekj_dic, c_dic_before, c_dic_after, looked>>

NextEQ == CallEQ

SpecEQ == InitEQ /\ [][NextEQ]_vars

(***************************************************************************)
(* DNIC.get_ekj                                                            *)
(***************************************************************************)
EkjSizes == {0, 1, 2}
EkjYears == {0, 1}
EkjMaxLen == 2
EkjMaxCite == 2

Subjects == {"A", "B"}

\* the subject lists of the papers of a corpus
CorpusSubjLists == {<<>>, <<"A">>, <<"B">>, <<"A", "B">>}

Range(s) == {s[i] : i \in DOMAIN s}

\* sum of f over its (finite) domain
RECURSIVE SumOver(_)
SumOver(f) ==
    IF DOMAIN f = {} THEN 0
    ELSE LET p == CHOOSE x \in DOMAIN f : TRUE
         IN  f[p] + SumOver([q \in DOMAIN f \ {p} |-> f[q]])

\* set(year_list)
YearSet(yl) == Range(yl)

\* set(list(itertools.chain.from_iterable(subjs_list)))
SubjSet(sl) == UNION {Range(sl[p]) : p \in DOMAIN sl}

\* targets = df[(df['year']<=year)&(df['subjs'].map(lambda x: subj in x))]
EkjTargets(sl, yl, subj, y) == {p \in DOMAIN yl : yl[p] <= y /\ subj \in Range(sl[p])}

\* row['c'][year-row['year']] is out of range for some row of targets
EkjIndexError(cl, yl, targets, y) == \E p \in targets : y - yl[p] >= Len(cl[p])

\* citations_kj = targets.apply(lambda row: row['c'][year-row['year']],axis=1)
CitationsKj(cl, yl, targets, y) == [p \in targets |-> At(cl[p], y - yl[p])]

\* N_kj counted over every row of targets
NKjAll(citations_kj) == Cardinality(DOMAIN citations_kj)

\* N_kj = (citations_kj>=1).sum()
NKj(citations_kj) == Cardinality({p \in DOMAIN citations_kj : citations_kj[p] >= 1})

\* ekj_dic[(subj,year)] = -1 if N_kj == 0 else citations_kj.sum()/N_kj
EkjCell(citations_kj) ==
    LET N_kj == NKj(citations_kj)
    IN  IF N_kj = 0 THEN Rat(-1, 1) ELSE Rat(SumOver(citations_kj), N_kj)

GetEkj(cl, sl, yl) ==
    LET cells == {k \in SubjSet(sl) \X YearSet(yl) : EkjTargets(sl, yl, k[1], k[2]) # {}}
    IN  IF \E k \in cells : EkjIndexError(cl, yl, EkjTargets(sl, yl, k[1], k[2]), k[2])
        THEN Raise("IndexError")
        ELSE Dict([k \in cells |->
                EkjCell(CitationsKj(cl, yl, EkjTargets(sl, yl, k[1], k[2]), k[2]))])

\* the corpora: parallel lists of histories, subject lists and publication years
Corpora(sizes, histories, subjLists, years) ==
    UNION {[1..n -> [c : histories, subjs : subjLists, year : years]] : n \in sizes}

InitEkj ==
    /\ fn = "none" /\ ret = "none"
    /\ \E corpus \in Corpora(EkjSizes, SeqsUpTo(EkjMaxLen, 0..EkjMaxCite) \ {<<>>},
                             CorpusSubjLists, EkjYears) :
          /\ c_list = [p \in DOMAIN corpus |-> corpus[p].c]
          /\ subjs_list = [p \in DOMAIN corpus |-> corpus[p].subjs]
          /\ year_list = [p \in DOMAIN corpus |-> corpus[p].year]
    /\ c = <<>> /\ par = <<>>
    /\ NoPaper /\ NoTables

CallGetEkj ==
    /\ fn = "none"
    /\ fn' = "DNIC.get_ekj"
    /\ ret' = GetEkj(c_list, subjs_list, year_list)
    /\ UNCHANGED <<c, par, subjs, year, c_list, subjs_list, year_list,
                   ekj_dic, c_dic_before, c_dic_after, looked>>

NextEkj == CallGetEkj

SpecEkj == InitEkj /\ [][NextEkj]_vars

(***************************************************************************)
(* Quartile.get_c_dic                                                      *)
(***************************************************************************)
CdSizes == {0, 1, 2, 3}
CdYears == {0, 1}
CdMaxC50 == 2
RateDen == 4

\* targets = df[(df['year']==year)&(df['subjs'].map(lambda x: subj in x))]
CDicTargets(sl, yl, subj, y) == {p \in DOMAIN yl : yl[p] = y /\ subj \in Range(sl[p])}

\* the c50 column of targets, in row order
RECURSIVE Column(_, _)
Column(c50l, targets) ==
    IF targets = {} THEN <<>>
    ELSE LET p == CHOOSE x \in targets : \A q \in targets : x <= q
         IN  <<c50l[p]>> \o Column(c50l, targets \ {p})

RECURSIVE Insert(_, _)
Insert(v, s) ==
    IF Len(s) = 0 THEN <<v>>
    ELSE IF v <= Head(s) THEN <<v>> \o s
    ELSE <<Head(s)>> \o Insert(v, Tail(s))

RECURSIVE Sorted(_)
Sorted(s) == IF Len(s) = 0 THEN <<>> ELSE Insert(Head(s), Sorted(Tail(s)))

\* the column left in row order
Unsorted(col) == col

\* targets.sort_values('c50')['c50']
SortValues(col) == Sorted(col)

\* int(len(targets)*rate) for a rate >= 0 given as a fraction
IlocIndex(n, rate) == (n * rate.num) \div rate.den

GetCDic(c50l, sl, yl, rate) ==
    LET cells == {k \in SubjSet(sl) \X YearSet(yl) : CDicTargets(sl, yl, k[1], k[2]) # {}}
        size(k) == Cardinality(CDicTargets(sl, yl, k[1], k[2]))
    IN  IF \E k \in cells : IlocIndex(size(k), rate) >= size(k)
        THEN Raise("IndexError")
        ELSE Dict([k \in cells |->
                At(SortValues(Column(c50l, CDicTargets(sl, yl, k[1], k[2]))),
                   IlocIndex(size(k), rate))])

\* the rates of [0, 1] in steps of 1/RateDen
Rates == {Rat(i, RateDen) : i \in 0..RateDen}

InitCDic ==
    /\ fn = "none" /\ ret = "none"
    /\ \E corpus \in Corpora(CdSizes, 0..CdMaxC50, CorpusSubjLists, CdYears) :
          /\ c_list = [p \in DOMAIN corpus |-> corpus[p].c]
          /\ subjs_list = [p \in DOMAIN corpus |-> corpus[p].subjs]
          /\ year_list = [p \in DOMAIN corpus |-> corpus[p].year]
    /\ par \in [rate : Rates]
    /\ c = <<>>
    /\ NoPaper /\ NoTables

CallGetCDic ==
    /\ fn = "none"
    /\ fn' = "Quartile.get_c_dic"
    /\ ret' = GetCDic(c_list, subjs_list, year_list, par.rate)
    /\ UNCHANGED <<c, par, subjs, year, c_list, subjs_list, year_list,
                   ekj_dic, c_dic_before, c_dic_after, looked>>

NextCDic == CallGetCDic

SpecCDic == InitCDic /\ [][NextCDic]_vars

(***************************************************************************)
(* Table lookups of DNIC.extract and Quartile.extract                      *)
(***************************************************************************)
\* a returned classification
Val(b) == [val |-> b]

\* what d[key] does when key is absent: a dict raises KeyError
KeyErr == [raise |-> TRUE, val |-> 0]

\* d.get(key, -1): the sentinel stands in for the absent entry
GetDefault == [raise |-> FALSE, val |-> Rat(-1, 1)]

\* d[key], recorded: the table, the key, whether it was present, the value read
Lookup(tab, d, key, miss) ==
    IF key \in DOMAIN d
    THEN [tab |-> tab, key |-> key, hit |-> TRUE, val |-> d[key]]
    ELSE [tab |-> tab, key |-> key, hit |-> FALSE, val |-> miss.val]

\* x / e for an integer x and a float e # 0
RatDiv(x, e) == Rat(x * e.den, e.num)

\* max() of a non-empty list of floats
RatMax(s) == CHOOSE m \in Range(s) : \A x \in Range(s) : RatLE(x, m)

(***************************************************************************)
(* DNIC.extract                                                            *)
(***************************************************************************)
\* [c[i-year]/ekj_dic[(subj,i)] for i in range(year,y_peak_v-2)], from i on
RECURSIVE BeforePeak(_, _, _, _, _, _, _)
BeforePeak(s, subj, y, d, i, stop, miss) ==
    IF i >= stop THEN [vals |-> <<>>, log |-> <<>>, ok |-> TRUE]
    ELSE LET e == Lookup("ekj_dic", d, <<subj, i>>, miss)
         IN  IF ~e.hit /\ miss.raise
             THEN [vals |-> <<>>, log |-> <<e>>, ok |-> FALSE]
             ELSE LET rest == BeforePeak(s, subj, y, d, i + 1, stop, miss)
                  IN  [vals |-> <<RatDiv(At(s, i - y), e.val)>> \o rest.vals,
                       log |-> <<e>> \o rest.log,
                       ok |-> rest.ok]

\* for subj in subjs: ... return True; return False
RECURSIVE SubjLoop(_, _, _, _, _, _, _)
SubjLoop(s, sl, y, d, c_peak, c_before_peak, miss) ==
    IF sl = <<>> THEN [ret |-> Val(FALSE), log |-> <<>>]
    ELSE LET subj == Head(sl)
             t_peak_v == ArgMax(s)
             y_peak_v == y + t_peak_v
             c_peak_v == At(s, t_peak_v)
             e == Lookup("ekj_dic", d, <<subj, y_peak_v>>, miss)
             b == BeforePeak(s, subj, y, d, y, y_peak_v - 2, miss)
             rest == SubjLoop(s, Tail(sl), y, d, c_peak, c_before_peak, miss)
             next == [ret |-> rest.ret, log |-> <<e>> \o rest.log]
             nextb == [ret |-> rest.ret, log |-> <<e>> \o b.log \o rest.log]
         IN  IF ~e.hit /\ miss.raise THEN [ret |-> Raise("KeyError"), log |-> <<e>>]
             ELSE IF ~RatLT(Rat(c_peak, 1), RatDiv(c_peak_v, e.val)) THEN next
             ELSE IF ~b.ok THEN [ret |-> Raise("KeyError"), log |-> <<e>> \o b.log]
             ELSE IF b.vals = <<>> THEN [ret |-> Raise("ValueError"), log |-> <<e>>]
             ELSE IF RatLT(RatMax(b.vals), Rat(c_before_peak, 1))
                  THEN [ret |-> Val(TRUE), log |-> <<e>> \o b.log]
             ELSE nextb

\* t_h = int(len(c)/2); np.argmax of an empty list raises ValueError
DNICRun(s, sl, y, d, c_peak, c_before_peak, miss) ==
    IF Len(s) = 0 THEN [ret |-> Raise("ValueError"), log |-> <<>>]
    ELSE LET t_h == Len(s) \div 2
         IN  IF t_h < ArgMax(s)
             THEN SubjLoop(s, sl, y, d, c_peak, c_before_peak, miss)
             ELSE [ret |-> Val(FALSE), log |-> <<>>]

\* the lookups written ekj_dic.get(key, -1)
DNICExtractGet(s, sl, y, d, c_peak, c_before_peak) ==
    DNICRun(s, sl, y, d, c_peak, c_before_peak, GetDefault)

DNICExtract(s, sl, y, d, c_peak, c_before_peak) ==
    DNICRun(s, sl, y, d, c_peak, c_before_peak, KeyErr)

(***************************************************************************)
(* Quartile.extract                                                        *)
(***************************************************************************)
\* scores = [1 if c50 < c_dic_before[(subj,year)] else
\*           3 if c50 > c_dic_after[(subj,year)] else 2 for subj in subjs]
RECURSIVE Scores(_, _, _, _, _)
Scores(c50, sl, y, before, after) ==
    IF sl = <<>> THEN [scores |-> <<>>, log |-> <<>>, ok |-> TRUE]
    ELSE LET key == <<Head(sl), y>>
             eb == Lookup("c_dic_before", before, key, KeyErr)
             ea == Lookup("c_dic_after", after, key, KeyErr)
             rest == Scores(c50, Tail(sl), y, before, after)
         IN  IF ~eb.hit THEN [scores |-> <<>>, log |-> <<eb>>, ok |-> FALSE]
             ELSE IF c50 < eb.val
                  THEN [scores |-> <<1>> \o rest.scores, log |-> <<eb>> \o rest.log,
                        ok |-> rest.ok]
             ELSE IF ~ea.hit THEN [scores |-> <<>>, log |-> <<eb, ea>>, ok |-> FALSE]
             ELSE [scores |-> <<IF c50 > ea.val THEN 3 ELSE 2>> \o rest.scores,
                   log |-> <<eb, ea>> \o rest.log,
                   ok |-> rest.ok]

\* np.mean(scores) >= 2.5; the mean of an empty list is NaN, and NaN >= 2.5 is False
QuartileExtract(c50, sl, y, before, after) ==
    LET r == Scores(c50, sl, y, before, after)
    IN  IF ~r.ok THEN [ret |-> Raise("KeyError"), log |-> r.log]
        ELSE IF r.scores = <<>> THEN [ret |-> Val(FALSE), log |-> r.log]
        ELSE [ret |-> Val(RatLE(Rat(5, 2), Rat(Sum(r.scores), Len(r.scores)))),
              log |-> r.log]

(***************************************************************************)
(* One call of DNIC.extract or of Quartile.extract on tables handed in by  *)
(* the caller.                                                             *)
(***************************************************************************)
ExMaxLen == 4
ExMaxC50 == 2
ExCites == {0, 1}
ExEntries == {0, 1, 2}

\* the subject lists of one paper, in the order the code walks them
SubjLists == {<<>>, <<"A">>, <<"B">>, <<"A", "B">>, <<"B", "A">>}

\* the dicts with keys from K and values from V whose number of entries is in N
Tables(K, V, N) ==
    UNION {[D -> V] : D \in {X \in SUBSET K : Cardinality(X) \in N}}

\* the entries get_ekj writes: the sentinel -1 or a positive mean
EkjValues == {Rat(-1, 1), Rat(1, 1)}

InitDNICCall ==
    /\ c \in SeqsUpTo(ExMaxLen, ExCites)
    /\ subjs \in SubjLists
    /\ year = 0
    /\ ekj_dic \in Tables(Subjects \X (0..(ExMaxLen - 1)), EkjValues, ExEntries)
    /\ par \in [c_peak : {0, 1}, c_before_peak : {1}]
    /\ c_dic_before = <<>> /\ c_dic_after = <<>>

InitQuartileCall ==
    /\ c = <<>>
    /\ subjs \in SubjLists
    /\ year = 0
    /\ ekj_dic = <<>>
    /\ par \in [c50 : 0..ExMaxC50]
    /\ c_dic_before \in Tables(Subjects \X {0, 1}, {1}, ExEntries)
    /\ c_dic_after \in Tables(Subjects \X {0, 1}, {1}, ExEntries)

InitExtract ==
    /\ fn = "none" /\ ret = "none" /\ looked = <<>>
    /\ NoCorpus
    /\ InitDNICCall \/ InitQuartileCall

CallDNICExtract ==
    /\ fn = "none"
    /\ "c_peak" \in DOMAIN par
    /\ LET r == DNICExtract(c, subjs, year, ekj_dic, par.c_peak, par.c_before_peak)
       IN  /\ fn' = "DNIC.extract"
           /\ ret' = r.ret
           /\ looked' = r.log
    /\ UNCHANGED <<c, par, subjs, year, c_list, subjs_list, year_list,
                   ekj_dic, c_dic_before, c_dic_after>>

CallQuartileExtract ==
    /\ fn = "none"
    /\ "c50" \in DOMAIN par
    /\ LET r == QuartileExtract(par.c50, subjs, year, c_dic_before, c_dic_after)
       IN  /\ fn' = "Quartile.extract"
           /\ ret' = r.ret
           /\ looked' = r.log
    /\ UNCHANGED <<c, par, subjs, year, c_list, subjs_list, year_list,
                   ekj_dic, c_dic_before, c_dic_after>>

NextExtract == CallDNICExtract \/ CallQuartileExtract

SpecExtract == InitExtract /\ [][NextExtract]_vars

(***************************************************************************)
(* The two phases of DNIC on one corpus: get_ekj builds the table, then    *)
(* extract is called on a paper of the corpus with that table.  The corpus *)
(* is observed in year DnicNow: the history of a paper published in year y *)
(* has the DnicNow - y + 1 entries of the years y..DnicNow.                *)
(***************************************************************************)
DnicNow == 3
DnicMaxCite == 1
DnicMaxPapers == 2

DnicPapers ==
    UNION {[c : [1..(DnicNow - y + 1) -> 0..DnicMaxCite],
            subjs : CorpusSubjLists,
            year : {y}] : y \in 0..DnicNow}

InitDNIC ==
    /\ fn = "none" /\ ret = "none"
    /\ \E corpus \in UNION {[1..n -> DnicPapers] : n \in 1..DnicMaxPapers} :
          /\ c_list = [p \in DOMAIN corpus |-> corpus[p].c]
          /\ subjs_list = [p \in DOMAIN corpus |-> corpus[p].subjs]
          /\ year_list = [p \in DOMAIN corpus |-> corpus[p].year]
    /\ c = <<>> /\ par = <<>>
    /\ NoPaper /\ NoTables

\* ekj_dic = DNIC.get_ekj(c_list, subjs_list, year_list)
BuildEkj ==
    /\ fn = "none"
    /\ fn' = "DNIC.get_ekj"
    /\ ret' = GetEkj(c_list, subjs_list, year_list)
    /\ ekj_dic' = IF "dic" \in DOMAIN ret' THEN ret'.dic ELSE ekj_dic
    /\ UNCHANGED <<c, par, subjs, year, c_list, subjs_list, year_list,
                   c_dic_before, c_dic_after, looked>>

\* DNIC.extract(c_list[p], subjs_list[p], year_list[p], ekj_dic, c_peak, c_before_peak)
ExtractPaper ==
    /\ fn = "DNIC.get_ekj"
    /\ "dic" \in DOMAIN ret
    /\ \E p \in DOMAIN c_list :
          /\ c' = c_list[p]
          /\ subjs' = subjs_list[p]
          /\ year' = year_list[p]
    /\ par' \in [c_peak : {0, 1}, c_before_peak : {0, 1}]
    /\ LET r == DNICExtract(c', subjs', year', ekj_dic, par'.c_peak, par'.c_before_peak)
       IN  /\ fn' = "DNIC.extract"
           /\ ret' = r.ret
           /\ looked' = r.log
    /\ UNCHANGED <<c_list, subjs_list, year_list, ekj_dic, c_dic_before, c_dic_after>>

NextDNIC == BuildEkj \/ ExtractPaper

SpecDNIC == InitDNIC /\ [][NextDNIC]_vars

(***************************************************************************)
(* Claims about the scores of one history (SpecScore).                     *)
(***************************************************************************)
\* C7: for every history whose citations sum to 0, of any length, the four
\* functions return their fallbacks: AdjustedGiniCoefficient.score 1.0,
\* BeautyCoefficient.score 0, BeautyCoefficientCumulativePercentage.score 0,
\* Quartile.get_c50 0.
C7_ZeroTotalFallbacks ==
    (fn # "none" /\ Sum(c) = 0) =>
        /\ fn = "AdjustedGiniCoefficient.score" => ret = Rat(1, 1)
        /\ fn = "BeautyCoefficient.score" => ret = Rat(0, 1)
        /\ fn = "BeautyCoefficientCumulativePercentage.score" => ret = Rat(0, 1)
        /\ fn = "Quartile.get_c50" => ret = 0

\* a one-year history without citations, scored by the Gini coefficient
C7_Witness ==
    /\ fn = "AdjustedGiniCoefficient.score"
    /\ Len(c) = 1 /\ Sum(c) = 0
    /\ ret = Rat(1, 1)

\* C8: for every history with at least one citation, get_c50 returns the
\* earliest offset t at which twice the citations of years 0..t reach the
\* lifetime total; at every earlier offset they are below it.
C8_EarliestHalf ==
    (fn = "Quartile.get_c50" /\ Sum(c) >= 1) =>
        /\ ret \in 0..(Len(c) - 1)
        /\ 2 * Cum(c, ret) >= Sum(c)
        /\ \A u \in 0..(ret - 1) : 2 * Cum(c, u) < Sum(c)

\* the half is reached exactly, and not in the first year
C8_Witness ==
    /\ fn = "Quartile.get_c50"
    /\ Sum(c) >= 1
    /\ ret >= 1
    /\ 2 * Cum(c, ret) = Sum(c)

\* C9 as stated: AdjustedGiniCoefficient.score is never negative.
C9_NonNegative ==
    fn = "AdjustedGiniCoefficient.score" => ret.num >= 0

\* C9 as amended: the score lies in [-1, 1]; it is negative exactly when
\* the recency-weighted sum exceeds (n+1)/2 times the total.
C9_WithinMinusOneOne ==
    fn = "AdjustedGiniCoefficient.score" =>
        /\ ret.den > 0
        /\ -ret.den <= ret.num /\ ret.num <= ret.den
        /\ (Sum(c) > 0 /\ Len(c) >= 2) =>
              (ret.num < 0 <=> 2 * WeightedSum(c, Len(c)) > (Len(c) + 1) * Sum(c))

\* every citation in the publication year: the score is -1
C9_Witness ==
    /\ fn = "AdjustedGiniCoefficient.score"
    /\ Len(c) >= 2 /\ Sum(c) > 0 /\ At(c, 0) = Sum(c)
    /\ ret.num = -ret.den

(***************************************************************************)
(* Claims about Average.extract (SpecAverage).                             *)
(***************************************************************************)
\* the years of lo..hi that the history has
YearsIn(s, lo, hi) == {t \in lo..hi : t < Len(s)}

RECURSIVE SumYears(_, _)
SumYears(s, T) ==
    IF T = {} THEN 0
    ELSE LET t == CHOOSE x \in T : TRUE IN At(s, t) + SumYears(s, T \ {t})

\* the mean citation count over the years of lo..hi that the history has
MeanOver(s, lo, hi) == Rat(SumYears(s, YearsIn(s, lo, hi)), Cardinality(YearsIn(s, lo, hi)))

\* C6 as stated: True iff the mean citation count over the years [0, s] is
\* <= cs and the mean over (s, s+a] is >= ca (stated for the histories that
\* have at least one year in each window, so that both means exist).
C6_MeanOverWindows ==
    (/\ fn = "Average.extract"
     /\ YearsIn(c, 0, par.s) # {}
     /\ YearsIn(c, par.s + 1, par.s + par.a) # {}) =>
        (ret <=> /\ RatLE(MeanOver(c, 0, par.s), Rat(par.cs, 1))
                 /\ RatLE(Rat(par.ca, 1), MeanOver(c, par.s + 1, par.s + par.a)))

\* C6 as amended: True iff the citations of years 0..s total at most
\* cs*(s+1) and those of years s+1..s+a total at least ca*a, a year past
\* the end of the history counting as zero citations; for a history of at
\* least s+a+1 years these are the means of the two windows.
C6_MeanWithMissingYearsZero ==
    fn = "Average.extract" =>
        /\ ret <=> /\ SumYears(c, YearsIn(c, 0, par.s)) <= par.cs * (par.s + 1)
                   /\ SumYears(c, YearsIn(c, par.s + 1, par.s + par.a)) >= par.ca * par.a
        /\ Len(c) >= par.s + par.a + 1 =>
             (ret <=> /\ RatLE(MeanOver(c, 0, par.s), Rat(par.cs, 1))
                      /\ RatLE(Rat(par.ca, 1), MeanOver(c, par.s + 1, par.s + par.a)))

\* a history that ends inside the awake window, and whose sleep mean is
\* exactly the depth of sleep
C6_Witness ==
    /\ fn = "Average.extract"
    /\ Len(c) > par.s + 1 /\ Len(c) < par.s + par.a + 1
    /\ SumYears(c, YearsIn(c, 0, par.s)) = par.cs * (par.s + 1)
    /\ par.ca >= 1
    /\ ret = TRUE

(***************************************************************************)
(* Claims about ExponentialQuartile.extract (SpecEQ).                      *)
(***************************************************************************)
\* C5: extract is monotonic in k: for a fixed history and k1 <= k2, if
\* extract(c, k2) is True then extract(c, k1) is True.
C5_MonotonicInK ==
    (fn = "ExponentialQuartile.extract" /\ Len(c) >= 5) =>
        \A k1, k2 \in DOMAIN ret :
            (k1 <= k2 /\ ret[k2] = TRUE) => ret[k1] = TRUE

(***************************************************************************)
(* Claims about DNIC.get_ekj (SpecEkj).                                    *)
(***************************************************************************)
\* the papers tagged with subj and published on or before y
Tagged(subj, y) ==
    {p \in DOMAIN c_list : subj \in Range(subjs_list[p]) /\ year_list[p] <= y}

\* every history reaches the last publication year of the corpus
HistoriesCover ==
    \A p \in DOMAIN c_list : \A y \in Range(year_list) :
        (subjs_list[p] # <<>> /\ year_list[p] <= y) => y - year_list[p] < Len(c_list[p])

\* the tagged papers with at least one citation in the absolute year y
Qualifying(subj, y) ==
    {p \in Tagged(subj, y) : At(c_list[p], y - year_list[p]) >= 1}

\* the citations the qualifying papers received in year y
QualifyingTotal(subj, y) ==
    SumOver([p \in Qualifying(subj, y) |-> At(c_list[p], y - year_list[p])])

CorpusCells == SubjSet(subjs_list) \X YearSet(year_list)

\* C1 as stated: every (subject, year) cell without a qualifying paper is
\* assigned -1, every other cell the positive mean of the qualifying
\* papers' citations (stated for the corpora whose histories reach the
\* last publication year).
C1_MinusOneIffNoQualifying ==
    (fn = "DNIC.get_ekj" /\ HistoriesCover) =>
        /\ "dic" \in DOMAIN ret
        /\ \A k \in CorpusCells :
            /\ k \in DOMAIN ret.dic
            /\ Qualifying(k[1], k[2]) = {} <=> ret.dic[k] = Rat(-1, 1)
            /\ Qualifying(k[1], k[2]) # {} =>
                 /\ RatEQ(ret.dic[k], Rat(QualifyingTotal(k[1], k[2]),
                                          Cardinality(Qualifying(k[1], k[2]))))
                 /\ ret.dic[k].num > 0

\* C1 as amended: get_ekj raises IndexError when the history of a tagged
\* paper ends before a publication year of the corpus; otherwise a cell
\* has an entry exactly when some paper tagged with the subject was
\* published on or before the year, the entry is -1 exactly when none of
\* these papers has a citation in that year, and it is otherwise the
\* positive mean of the qualifying papers' citations.
C1_EntryOnlyForTaggedCells ==
    fn = "DNIC.get_ekj" =>
        IF ~HistoriesCover THEN ret = Raise("IndexError")
        ELSE /\ "dic" \in DOMAIN ret
             /\ DOMAIN ret.dic = {k \in CorpusCells : Tagged(k[1], k[2]) # {}}
             /\ \A k \in DOMAIN ret.dic :
                  /\ Qualifying(k[1], k[2]) = {} <=> ret.dic[k] = Rat(-1, 1)
                  /\ Qualifying(k[1], k[2]) # {} =>
                       /\ RatEQ(ret.dic[k], Rat(QualifyingTotal(k[1], k[2]),
                                                Cardinality(Qualifying(k[1], k[2]))))
                       /\ ret.dic[k].num > 0

\* one table with a cell left out, a -1 cell and a cell whose mean counts
\* only one of two tagged papers
C1_Witness ==
    /\ fn = "DNIC.get_ekj"
    /\ HistoriesCover
    /\ "dic" \in DOMAIN ret
    /\ \E k \in CorpusCells : k \notin DOMAIN ret.dic
    /\ \E k \in DOMAIN ret.dic : ret.dic[k] = Rat(-1, 1)
    /\ \E k \in DOMAIN ret.dic :
          /\ Cardinality(Tagged(k[1], k[2])) = 2
          /\ Cardinality(Qualifying(k[1], k[2])) = 1
          /\ ret.dic[k].num >= 2

(***************************************************************************)
(* Claims about Quartile.get_c_dic (SpecCDic); c_list holds the c50 values.*)
(***************************************************************************)
\* the papers published exactly in year y and tagged with subj
Group(subj, y) ==
    {p \in DOMAIN c_list : subj \in Range(subjs_list[p]) /\ year_list[p] = y}

\* v stands at (0-based) position i of the group's c50 values sorted ascending
AtSortedPosition(v, i, G) ==
    /\ \E p \in G : c_list[p] = v
    /\ Cardinality({p \in G : c_list[p] < v}) <= i
    /\ i < Cardinality({p \in G : c_list[p] <= v})

\* floor(count * rate)
RateIndex(G) == (Cardinality(G) * par.rate.num) \div par.rate.den

\* C2 as stated: for every rate in [0, 1], every (subject, year) group with
\* at least one paper gets the c50 value at index floor(count * rate) of its
\* c50 values sorted ascending.
C2_OrderStatistic ==
    fn = "Quartile.get_c_dic" =>
        /\ "dic" \in DOMAIN ret
        /\ \A k \in CorpusCells :
             Group(k[1], k[2]) # {} =>
                /\ k \in DOMAIN ret.dic
                /\ AtSortedPosition(ret.dic[k], RateIndex(Group(k[1], k[2])),
                                    Group(k[1], k[2]))

\* C2 as amended: for every rate in [0, 1) the table has an entry exactly
\* for the groups with at least one paper, the c50 value at index
\* floor(count * rate) of the group's sorted values; at rate = 1 the index is
\* count, past the end of the group, and the call raises IndexError as soon
\* as the corpus has one group.
C2_OrderStatisticBelowOne ==
    fn = "Quartile.get_c_dic" =>
        IF par.rate.num = par.rate.den /\ \E k \in CorpusCells : Group(k[1], k[2]) # {}
        THEN ret = Raise("IndexError")
        ELSE /\ "dic" \in DOMAIN ret
             /\ DOMAIN ret.dic = {k \in CorpusCells : Group(k[1], k[2]) # {}}
             /\ \A k \in DOMAIN ret.dic :
                  AtSortedPosition(ret.dic[k], RateIndex(Group(k[1], k[2])),
                                   Group(k[1], k[2]))

\* a group of three papers listed out of order, at rate 1/2: the entry is
\* the middle value
C2_Witness ==
    /\ fn = "Quartile.get_c_dic"
    /\ "dic" \in DOMAIN ret
    /\ 2 * par.rate.num = par.rate.den
    /\ \E k \in DOMAIN ret.dic :
          /\ Cardinality(Group(k[1], k[2])) = 3
          /\ c_list[1] > c_list[2] /\ c_list[2] > c_list[3]
          /\ ret.dic[k] = c_list[2]

(***************************************************************************)
(* Claims about the lookups of DNIC.extract and Quartile.extract           *)
(* (SpecExtract).                                                          *)
(***************************************************************************)
\* C4: whenever DNIC.extract or Quartile.extract looks up a key that is
\* absent from the table it was given, the call raises KeyError: it returns
\* no classification, and the absent key is the last one it looked up.
C4_MissingKeyRaises ==
    (fn \in {"DNIC.extract", "Quartile.extract"}
        /\ \E i \in DOMAIN looked : ~looked[i].hit) =>
        /\ ret = Raise("KeyError")
        /\ \A i \in DOMAIN looked : ~looked[i].hit => i = Len(looked)

\* a call that read one entry and then asked for an absent one
C4_Witness ==
    /\ fn \in {"DNIC.extract", "Quartile.extract"}
    /\ Len(looked) >= 2
    /\ looked[1].hit
    /\ ~looked[Len(looked)].hit
    /\ ret = Raise("KeyError")

(***************************************************************************)
(* Claims about DNIC.extract on the table of its own corpus (SpecDNIC).    *)
(***************************************************************************)
\* C3: when ekj_dic is built by get_ekj from a corpus and extract is called
\* on a paper of that corpus, every key extract looks up is a key of the
\* table.
C3_LookupsAreKeys ==
    fn = "DNIC.extract" =>
        \A i \in DOMAIN looked : looked[i].key \in DOMAIN ekj_dic

\* C10: in no call of extract that returns a classification is an entry
\* equal to the sentinel -1 used as the divisor of a normalized value.
C10_SentinelNeverDivisor ==
    (fn = "DNIC.extract" /\ "val" \in DOMAIN ret) =>
        \A i \in DOMAIN looked : looked[i].hit => looked[i].val # Rat(-1, 1)

====
